---- MODULE Spec2Model ----
(***************************************************************************)
(* The single-expression Pratt compiler of src/src/compiler.rs as a state  *)
(* machine.  The compiler's recursion is kept as an explicit call stack:   *)
(* a frame is one activation of compile, expression, parse_precedence,     *)
(* grouping, unary, binary or number, and one action runs the frame on top *)
(* of the stack from where it stands up to its next call or its return.    *)
(* The leaf functions (advance, consume, error_at, emit_op_code, ...) are  *)
(* operators from a compiler state to a compiler state.  The scanner, the  *)
(* chunk and the token-kind enumeration live outside src/ and are modelled *)
(* from their use in compiler.rs.                                          *)
(***************************************************************************)
EXTENDS Integers, Sequences, FiniteSets, TLC

\* ------------------------------------------------------------------ bounds

\* Every token sequence of at most MaxLen tokens is an input.
MaxLen == 3

\* ------------------------------------------------------- Option<T>, results

None == <<>>
Some(x) == <<x>>
is_some(o) == Len(o) > 0
unwrap(o) == o[1]

Last(seq) == seq[Len(seq)]
ButLast(seq) == SubSeq(seq, 1, Len(seq) - 1)

\* ------------------------------------------------------------- Precedence

NONE == 0
Assignment == 1
Or == 2
And == 3
Eq == 4
Comp == 5
Term == 6
Factor == 7
Unary == 8
Call == 9
Primary == 10

Precedence == NONE..Primary

\* Precedence::from_repr: Some(variant) for a rank of the enum, None otherwise.
from_repr(code) == IF code \in Precedence THEN Some(code) ELSE None

\* ---------------------------------------------------------------- TokenType

\* The token kinds in rank order (the order of the rows of RULES).
TokenTypes ==
    << "LEFT_PAREN", "RIGHT_PAREN", "LEFT_BRACE", "RIGHT_BRACE", "COMMA", "DOT",
       "MINUS", "PLUS", "SEMICOLON", "SLASH", "STAR", "BANG", "BANG_EQUAL",
       "EQUAL", "EQUAL_EQUAL", "GREATER", "GREATER_EQUAL", "LESS", "LESS_EQUAL",
       "SLASH_EQUAL", "IDENTIFIER", "STRING", "NUMBER", "AND", "CLASS", "ELSE",
       "FALSE", "FOR", "FUN", "IF", "NIL", "OR", "PRINT", "RETURN", "SUPER",
       "THIS", "TRUE", "VAR", "WHILE", "ERROR", "EOF" >>

TokenType == {TokenTypes[i] : i \in 1..Len(TokenTypes)}

\* `kind as usize`: the rank of a token kind in the enumeration, from 0.
as_usize(token_type) == (CHOOSE i \in 1..Len(TokenTypes) : TokenTypes[i] = token_type) - 1

\* ------------------------------------------------------------------ RULES

ParseRule(prefix, infix, precedence) ==
    [prefix |-> prefix, infix |-> infix, precedence |-> precedence]

NoRule == ParseRule(None, None, NONE)

RULES ==
    << (* LEFT_PAREN    *) ParseRule(Some("grouping"), None, NONE),
       (* RIGHT_PAREN   *) NoRule,
       (* LEFT_BRACE    *) NoRule,
       (* RIGHT_BRACE   *) NoRule,
       (* COMMA         *) NoRule,
       (* DOT           *) NoRule,
       (* MINUS         *) ParseRule(Some("unary"), Some("binary"), Term),
       (* PLUS          *) ParseRule(None, Some("binary"), Term),
       (* SEMICOLON     *) NoRule,
       (* SLASH         *) ParseRule(None, Some("binary"), Factor),
       (* STAR          *) ParseRule(None, Some("binary"), Factor),
       (* BANG          *) NoRule,
       (* BANG_EQUAL    *) NoRule,
       (* EQUAL         *) NoRule,
       (* EQUAL_EQUAL   *) NoRule,
       (* GREATER       *) NoRule,
       (* GREATER_EQUAL *) NoRule,
       (* LESS          *) NoRule,
       (* LESS_EQUAL    *) NoRule,
       (* SLASH_EQUAL   *) NoRule,
       (* IDENTIFIER    *) NoRule,
       (* STRING        *) NoRule,
       (* NUMBER        *) ParseRule(Some("number"), None, NONE),
       (* AND           *) NoRule,
       (* CLASS         *) NoRule,
       (* ELSE          *) NoRule,
       (* FALSE         *) NoRule,
       (* FOR           *) NoRule,
       (* FUN           *) NoRule,
       (* IF            *) NoRule,
       (* NIL           *) NoRule,
       (* OR            *) NoRule,
       (* PRINT         *) NoRule,
       (* RETURN        *) NoRule,
       (* SUPER         *) NoRule,
       (* THIS          *) NoRule,
       (* TRUE          *) NoRule,
       (* VAR           *) NoRule,
       (* WHILE         *) NoRule,
       (* ERROR         *) NoRule,
       (* EOF           *) NoRule >>

\* RULES.get(idx): Some(rule) inside the table, None outside it.
RULES_get(idx) == IF idx + 1 \in 1..Len(RULES) THEN Some(RULES[idx + 1]) ELSE None

\* get_rule over a table whose multiplicative rows carry the additive level.
get_rule_one_level(token_type) ==
    LET rule == unwrap(RULES_get(as_usize(token_type)))
    IN  IF rule.precedence = Factor THEN [rule EXCEPT !.precedence = Term] ELSE rule

\* get_rule over a table one row out of step with the ranks of the kinds.
get_rule_row_before(token_type) ==
    IF as_usize(token_type) = 0 THEN RULES[1] ELSE RULES[as_usize(token_type)]

\* A table in which the closing parenthesis is an infix operator of the Term level.
get_rule_paren_infix(token_type) ==
    IF token_type = "RIGHT_PAREN"
    THEN ParseRule(None, Some("binary"), Term)
    ELSE unwrap(RULES_get(as_usize(token_type)))

\* A table in which the semicolon has the Term level and no handler.
get_rule_semicolon_term(token_type) ==
    IF token_type = "SEMICOLON"
    THEN ParseRule(None, None, Term)
    ELSE unwrap(RULES_get(as_usize(token_type)))

get_rule(token_type) == unwrap(RULES_get(as_usize(token_type)))

\* next_precedence without the step to the successor.
next_precedence_same(variant) == variant

\* next_precedence that stays at the top level instead of starting over.
next_precedence_saturating(variant) ==
    LET next == from_repr(variant + 1)
    IN  IF is_some(next) THEN unwrap(next) ELSE variant

next_precedence(variant) ==
    LET code == variant
        next == from_repr(code + 1)
    IN  IF is_some(next) THEN unwrap(next) ELSE Assignment

\* ------------------------------------------------------- tokens and inputs

Token(token_type, start, literal, message, line) ==
    [token_type |-> token_type, start |-> start, length |-> 1,
     literal |-> literal, message |-> message, line |-> line]

\* The literal texts of the number tokens, as their characters.
NumberLiterals == { <<"7">>, <<"4", "2">> }

\* What the scanner can hand out, before it is given a position and a line.
Plain(token_type) == [token_type |-> token_type, literal |-> None, message |-> None]
Number(text) == [token_type |-> "NUMBER", literal |-> Some(text), message |-> None]
Lexical == [token_type |-> "ERROR", literal |-> None, message |-> Some("Unexpected character.")]

BinaryOps == {"PLUS", "MINUS", "STAR", "SLASH"}

Symbols ==
    {Number(text) : text \in NumberLiterals}
        \cup {Plain(t) : t \in BinaryOps \cup {"LEFT_PAREN", "RIGHT_PAREN", "SEMICOLON"}}
        \cup {Lexical}

SeqsUpTo(S, n) == UNION {[1..k -> S] : k \in 0..n}

\* Longer inputs of the shapes the grammar gives a meaning to:
\* a op b op c, (a op b) op c, a op (b op c), -a op b, -(a op b), and inputs
\* in parentheses or with the closing parenthesis missing.
NumA == Number(<<"7">>)
NumB == Number(<<"4", "2">>)
NumC == Number(<<"1", "0", "5">>)
Chains ==
    {<<NumA, Plain(op1), NumB, Plain(op2), NumC>> : op1 \in BinaryOps, op2 \in BinaryOps}
LeftGroups ==
    {<<Plain("LEFT_PAREN"), NumA, Plain(op1), NumB, Plain("RIGHT_PAREN"), Plain(op2), NumC>> :
        op1 \in BinaryOps, op2 \in BinaryOps}
RightGroups ==
    {<<NumA, Plain(op1), Plain("LEFT_PAREN"), NumB, Plain(op2), NumC, Plain("RIGHT_PAREN")>> :
        op1 \in BinaryOps, op2 \in BinaryOps}
NegatedOperands ==
    {<<Plain("MINUS"), NumA, Plain(op), NumB>> : op \in BinaryOps}
NegatedGroups ==
    {<<Plain("MINUS"), Plain("LEFT_PAREN"), NumA, Plain(op), NumB, Plain("RIGHT_PAREN")>> :
        op \in BinaryOps}
Wrapped(S) == {<<Plain("LEFT_PAREN")>> \o e \o <<Plain("RIGHT_PAREN")>> : e \in S}
Unclosed(S) == {<<Plain("LEFT_PAREN")>> \o e : e \in S}
Shapes ==
    Chains \cup LeftGroups \cup RightGroups \cup NegatedOperands \cup NegatedGroups
        \cup Wrapped(Chains \cup SeqsUpTo(Symbols, MaxLen))
        \cup Unclosed(Chains)

Inputs == SeqsUpTo(Symbols, MaxLen) \cup Shapes

\* Either the whole input is on line 1, or every token is on a line of its own.
LineModes == {"one", "each"}
line_of(mode, i) == IF mode = "one" THEN 1 ELSE i

tokens_of(symbols, mode) ==
    [i \in 1..Len(symbols) |->
        Token(symbols[i].token_type, i - 1, symbols[i].literal, symbols[i].message,
              line_of(mode, i))]

\* --------------------------------------------------------------- the state

VARIABLES
    source,         \* the tokens the scanner will produce, before the final EOF
    scanned,        \* how many times scan_token has been called
    parser,         \* Parser { previous, current }
    current_chunk,  \* Option<StoredChunk>
    chunk,          \* the caller's chunk: opcodes and constant pool
    debug_mode,
    stack,          \* the activations of the compiler's functions, innermost last
    ret,            \* the result of the call that returned last
    stdout,         \* the lines written to standard output
    probe           \* one table lookup on its own: its arguments and its results

vars ==
    <<source, scanned, parser, current_chunk, chunk, debug_mode, stack, ret, stdout, probe>>

State ==
    [source |-> source, scanned |-> scanned, parser |-> parser,
     current_chunk |-> current_chunk, chunk |-> chunk, debug_mode |-> debug_mode,
     stack |-> stack, ret |-> ret, stdout |-> stdout]

\* Compiler::from_source, with a fresh chunk on the caller's side.
from_source(tokens, debug) ==
    [source |-> tokens, scanned |-> 0,
     parser |-> [previous |-> None, current |-> None],
     current_chunk |-> None,
     chunk |-> [code |-> <<>>, constants |-> <<>>],
     debug_mode |-> debug,
     stack |-> <<>>, ret |-> "None", stdout |-> <<>>]

\* ------------------------------------------------------ scanner and chunk

\* Scanner::scan_token: the next token of the source, EOF once it is used up.
scan_token(s) ==
    IF s.scanned < Len(s.source)
    THEN s.source[s.scanned + 1]
    ELSE Token("EOF", Len(s.source), None, None,
               IF Len(s.source) = 0 THEN 1 ELSE Last(s.source).line)

\* Scanner::substr: the source text between two offsets (a token is one unit wide).
substr(s, start, end) == [i \in 1..(end - start) |-> s.source[start + i].token_type]

\* Chunk::push: append an opcode.
push(c, op_code) == [c EXCEPT !.code = Append(@, op_code)]

\* Chunk::push_const: append a constant; its index is its position, from 0.
push_const(c, value) == [c EXCEPT !.constants = Append(@, value)]
push_const_idx(c, value) == Len(c.constants)

\* str::parse::<f64> on a literal of decimal digits.
Digits == <<"0", "1", "2", "3", "4", "5", "6", "7", "8", "9">>
digit_value(ch) == (CHOOSE d \in 1..10 : Digits[d] = ch) - 1
RECURSIVE parse_digits(_)
parse_digits(text) ==
    IF Len(text) = 0 THEN 0 ELSE 10 * parse_digits(ButLast(text)) + digit_value(Last(text))
parse_f64(text) ==
    IF Len(text) > 0 /\ \A i \in 1..Len(text) : \E d \in 1..10 : Digits[d] = text[i]
    THEN Some(parse_digits(text))
    ELSE None

Float(x) == [Float |-> x]

\* ------------------------------------------------------------ the opcodes

Const(line, const_idx) == [op |-> "Const", line |-> line, const_idx |-> const_idx]
Negate(line) == [op |-> "Negate", line |-> line, const_idx |-> 0]
Add(line) == [op |-> "Add", line |-> line, const_idx |-> 0]
Sub(line) == [op |-> "Sub", line |-> line, const_idx |-> 0]
Mul(line) == [op |-> "Mul", line |-> line, const_idx |-> 0]
Div(line) == [op |-> "Div", line |-> line, const_idx |-> 0]

\* --------------------------------------------------------- standard output

TraceLine(text) == [tag |-> text, line |-> 0, at |-> <<>>, message |-> ""]
ErrorLine(line, at, message) == [tag |-> "Error", line |-> line, at |-> at, message |-> message]

println(s, l) == [s EXCEPT !.stdout = Append(@, l)]
debug(s, text) == IF s.debug_mode THEN println(s, TraceLine(text)) ELSE s

\* ----------------------------------------------------- calls and returns

Frame(fn, pc, precedence, op_type) ==
    [fn |-> fn, pc |-> pc, precedence |-> precedence, op_type |-> op_type]

Top(s) == Last(s.stack)
Running(s, fn, pc) == Len(s.stack) > 0 /\ Top(s).fn = fn /\ Top(s).pc = pc

\* The frame on top moves to pc and calls the function of the new frame.
call(s, pc, frame) ==
    [s EXCEPT !.stack = Append([@ EXCEPT ![Len(@)].pc = pc], frame), !.ret = "None"]

\* The frame on top moves to pc.
goto(s, pc) == [s EXCEPT !.stack = [@ EXCEPT ![Len(@)].pc = pc]]

\* An unwrap of None, or panic!: the process aborts.
panic(s) == [s EXCEPT !.stack = <<>>, !.ret = "Panic"]

\* The frame on top returns result to its caller.
return(s, result) ==
    IF s.ret = "Panic" THEN s ELSE [s EXCEPT !.stack = ButLast(@), !.ret = result]

\* --------------------------------------------------------- leaf functions

previous(s) == s.parser.previous
current(s) == s.parser.current

error_at(s, token, message) ==
    LET at == CASE token.token_type = "EOF" -> <<"end">>
                [] token.token_type = "ERROR" -> <<>>
                [] OTHER -> substr(s, token.start, token.start + token.length)
    IN  [println(s, ErrorLine(token.line, at, message)) EXCEPT !.ret = "Err"]

error_at_current(s, message) == error_at(s, unwrap(current(s)), message)

\* error that reports the token ahead instead of the token just consumed.
error_at_token_ahead(s, message) == error_at(s, unwrap(current(s)), message)

error(s, message) == error_at(s, unwrap(previous(s)), message)

\* advance that sets a token of the error kind aside instead of installing it.
advance_error_aside(s) ==
    LET new_token == scan_token(s)
        s1 == [s EXCEPT !.parser = [previous |-> current(s),
                                    current |-> IF new_token.token_type = "ERROR"
                                                THEN current(s)
                                                ELSE Some(new_token)],
                        !.scanned = @ + 1]
        s2 == debug(s1, "Called advance()")
    IN  IF new_token.token_type = "ERROR"
        THEN error_at(s2, new_token, unwrap(new_token.message))
        ELSE [s2 EXCEPT !.ret = "Ok"]

advance(s) ==
    LET new_token == scan_token(s)
        message == IF new_token.token_type = "ERROR" THEN new_token.message ELSE None
        s1 == [s EXCEPT !.parser = [previous |-> current(s), current |-> Some(new_token)],
                        !.scanned = @ + 1]
        s2 == debug(s1, "Called advance()")
    IN  IF unwrap(current(s2)).token_type = "ERROR"
        THEN error_at_current(s2, unwrap(message))
        ELSE [s2 EXCEPT !.ret = "Ok"]

\* consume that reports the token behind instead of the token it looked at.
consume_at_token_behind(s, token_type, message) ==
    IF unwrap(current(s)).token_type = token_type
    THEN advance(s)
    ELSE error(s, message)

consume(s, token_type, message) ==
    IF unwrap(current(s)).token_type = token_type
    THEN advance(s)
    ELSE error_at_current(s, message)

\* emit_op_code whose trace branch takes the place of the push.
emit_op_code_traced_only(s, op_code) ==
    IF s.debug_mode
    THEN println(s, TraceLine("Emitted opcode"))
    ELSE IF is_some(s.current_chunk)
         THEN [s EXCEPT !.chunk = push(@, op_code)]
         ELSE panic(s)

emit_op_code(s, op_code) ==
    LET s1 == debug(s, "Emitted opcode")
    IN  IF is_some(s1.current_chunk)
        THEN [s1 EXCEPT !.chunk = push(@, op_code)]
        ELSE panic(s1)

make_const(s, value) == [s EXCEPT !.chunk = push_const(@, value)]

\* line that reads the token ahead instead of the token just consumed.
line_of_current(s) == unwrap(current(s)).line

line(s) == unwrap(previous(s)).line

\* emit_const that reads the length of the pool after the constant is in it.
emit_const_late_index(s, value) ==
    LET l == line(s)
        s1 == make_const(s, value)
    IN  emit_op_code(s1, Const(l, Len(s1.chunk.constants)))

emit_const(s, value) ==
    LET l == line(s)
        const_idx == push_const_idx(s.chunk, value)
    IN  emit_op_code(make_const(s, value), Const(l, const_idx))

\* ------------------------------------------------------------- the handlers

\* Compiler::expression, up to its call of parse_precedence.
\* expression that gives parse_precedence no minimum precedence.
expression_start_no_minimum(s) ==
    call(debug(s, "Called expression()"), "return",
         Frame("parse_precedence", "start", NONE, None))

expression_start(s) ==
    call(debug(s, "Called expression()"), "return",
         Frame("parse_precedence", "start", Assignment, None))

\* Compiler::expression, returning what parse_precedence returned.
expression_return(s) == return(s, s.ret)

\* Compiler::number.
\* number that interns the value and emits no opcode for it.
number_interned_only(s) ==
    LET parsed == parse_f64(unwrap(unwrap(previous(s)).literal))
    IN  IF ~is_some(parsed)
        THEN panic(s)
        ELSE return(make_const(debug(s, "Called number()"), Float(unwrap(parsed))), "Ok")

number(s) ==
    LET parsed == parse_f64(unwrap(unwrap(previous(s)).literal))
    IN  IF ~is_some(parsed)
        THEN panic(s)
        ELSE LET value == Float(unwrap(parsed))
                 s1 == debug(s, "Called number()")
             IN  return(emit_const(s1, value), "Ok")

\* Compiler::grouping, up to its call of expression.
grouping_start(s) == call(s, "close", Frame("expression", "start", NONE, None))

\* grouping that leaves the closing parenthesis where it is.
grouping_close_unconsumed(s) == return(s, s.ret)

\* Compiler::grouping, from the return of expression.
grouping_close(s) ==
    IF s.ret = "Err"
    THEN return(s, "Err")
    ELSE LET s1 == consume(s, "RIGHT_PAREN", "Expected ')'")
         IN  return(s1, s1.ret)

\* unary with a whole expression as its operand.
unary_start_expression(s) ==
    LET op_type == unwrap(previous(s)).token_type
        s1 == [s EXCEPT !.stack = [@ EXCEPT ![Len(@)].op_type = Some(op_type)]]
    IN  call(s1, "emit", Frame("expression", "start", NONE, None))

\* Compiler::unary, up to its call of parse_precedence.
unary_start(s) ==
    LET op_type == unwrap(previous(s)).token_type
        s1 == [s EXCEPT !.stack = [@ EXCEPT ![Len(@)].op_type = Some(op_type)]]
    IN  call(s1, "emit", Frame("parse_precedence", "start", Unary, None))

\* Compiler::unary, from the return of parse_precedence.
unary_emit(s) ==
    IF s.ret = "Err"
    THEN return(s, "Err")
    ELSE LET s1 == debug(s, "Called unary")
         IN  IF unwrap(Top(s).op_type) = "MINUS"
             THEN return(emit_op_code(s1, Negate(line(s1))), "Ok")
             ELSE return(s1, "Ok")

\* Compiler::binary, up to its call of parse_precedence.
binary_start(s) ==
    LET op_type == unwrap(previous(s)).token_type
        rule == get_rule(op_type)
        next == next_precedence(rule.precedence)
        s1 == [s EXCEPT !.stack = [@ EXCEPT ![Len(@)].op_type = Some(op_type)]]
        s2 == debug(s1, "Called binary")
    IN  call(s2, "emit", Frame("parse_precedence", "start", next, None))

\* binary without the `?` on its operand.
binary_emit_unchecked(s) ==
    LET op_type == unwrap(Top(s).op_type)
    IN  CASE op_type = "PLUS" -> return(emit_op_code(s, Add(line(s))), s.ret)
          [] op_type = "MINUS" -> return(emit_op_code(s, Sub(line(s))), s.ret)
          [] op_type = "SLASH" -> return(emit_op_code(s, Div(line(s))), s.ret)
          [] op_type = "STAR" -> return(emit_op_code(s, Mul(line(s))), s.ret)
          [] OTHER -> panic(s)

\* Compiler::binary, from the return of parse_precedence.
binary_emit(s) ==
    IF s.ret = "Err"
    THEN return(s, "Err")
    ELSE LET op_type == unwrap(Top(s).op_type)
         IN  CASE op_type = "PLUS" -> return(emit_op_code(s, Add(line(s))), "Ok")
               [] op_type = "MINUS" -> return(emit_op_code(s, Sub(line(s))), "Ok")
               [] op_type = "SLASH" -> return(emit_op_code(s, Div(line(s))), "Ok")
               [] op_type = "STAR" -> return(emit_op_code(s, Mul(line(s))), "Ok")
               [] OTHER -> panic(s)

\* Compiler::parse_precedence: the advance and the dispatch on the prefix rule.
parse_precedence_start(s) ==
    LET s1 == advance(debug(s, "Called parse_precedence()"))
    IN  IF s1.ret = "Err"
        THEN return(s1, "Err")
        ELSE LET prefix_rule == get_rule(unwrap(previous(s1)).token_type).prefix
             IN  IF ~is_some(prefix_rule)
                 THEN return(error(s1, "Expected expression"), "Err")
                 ELSE call(s1, "prefix", Frame(unwrap(prefix_rule), "start", NONE, None))

\* Compiler::parse_precedence, from the return of the prefix rule to the loop.
parse_precedence_prefix(s) ==
    IF s.ret = "Err"
    THEN return(s, "Err")
    ELSE LET current_token_precedence == get_rule(unwrap(current(s)).token_type).precedence
             s1 == IF ~(Top(s).precedence <= current_token_precedence)
                   THEN println(s, TraceLine("Skipping infix rule loop"))
                   ELSE s
         IN  goto(s1, "loop")

\* Compiler::parse_precedence: the test of the while loop and one turn of its
\* body up to the call of the infix rule.
parse_precedence_loop(s) ==
    IF Top(s).precedence <= get_rule(unwrap(current(s)).token_type).precedence
    THEN LET s1 == advance(debug(s, "Inside infix rule loop"))
         IN  IF s1.ret = "Err"
             THEN return(s1, "Err")
             ELSE LET infix_rule == get_rule(unwrap(previous(s1)).token_type).infix
                  IN  IF ~is_some(infix_rule)
                      THEN s1
                      ELSE call(debug(s1, "Calling infix rule"), "infix",
                                Frame(unwrap(infix_rule), "start", NONE, None))
    ELSE return(s, "Ok")

\* Compiler::parse_precedence, from the return of the infix rule back to the loop.
parse_precedence_infix(s) ==
    IF s.ret = "Err" THEN return(s, "Err") ELSE goto(s, "loop")

\* Compiler::compile, up to its call of expression.
compile_start(s) ==
    LET s1 == advance([s EXCEPT !.current_chunk = Some("chunk")])
    IN  IF s1.ret = "Err"
        THEN s1
        ELSE call([s1 EXCEPT !.stack = <<Frame("compile", "start", NONE, None)>>],
                  "finish", Frame("expression", "start", NONE, None))

\* compile without the look for the end of the input.
compile_finish_unchecked(s) == return(s, s.ret)

\* Compiler::compile, from the return of expression.
compile_finish(s) ==
    IF s.ret = "Err"
    THEN return(s, "Err")
    ELSE LET s1 == consume(s, "EOF", "Expected end of expression")
         IN  return(s1, s1.ret)

\* ------------------------------------------------------------ the machine

Set(t) ==
    /\ source' = t.source
    /\ scanned' = t.scanned
    /\ parser' = t.parser
    /\ current_chunk' = t.current_chunk
    /\ chunk' = t.chunk
    /\ debug_mode' = t.debug_mode
    /\ stack' = t.stack
    /\ ret' = t.ret
    /\ stdout' = t.stdout
    /\ probe' = probe

Init ==
    \E symbols \in Inputs, mode \in LineModes, flag \in BOOLEAN :
        LET t == from_source(tokens_of(symbols, mode), flag)
        IN  /\ source = t.source
            /\ scanned = t.scanned
            /\ parser = t.parser
            /\ current_chunk = t.current_chunk
            /\ chunk = t.chunk
            /\ debug_mode = t.debug_mode
            /\ stack = t.stack
            /\ ret = t.ret
            /\ stdout = t.stdout
            /\ probe = None

Compile == stack = <<>> /\ ret = "None" /\ Set(compile_start(State))
CompileFinish == Running(State, "compile", "finish") /\ Set(compile_finish(State))
Expression == Running(State, "expression", "start") /\ Set(expression_start(State))
ExpressionReturn == Running(State, "expression", "return") /\ Set(expression_return(State))
ParsePrecedence ==
    Running(State, "parse_precedence", "start") /\ Set(parse_precedence_start(State))
ParsePrecedencePrefix ==
    Running(State, "parse_precedence", "prefix") /\ Set(parse_precedence_prefix(State))
ParsePrecedenceLoop ==
    Running(State, "parse_precedence", "loop") /\ Set(parse_precedence_loop(State))
ParsePrecedenceInfix ==
    Running(State, "parse_precedence", "infix") /\ Set(parse_precedence_infix(State))
NumberLiteral == Running(State, "number", "start") /\ Set(number(State))
Grouping == Running(State, "grouping", "start") /\ Set(grouping_start(State))
GroupingClose == Running(State, "grouping", "close") /\ Set(grouping_close(State))
UnaryOp == Running(State, "unary", "start") /\ Set(unary_start(State))
UnaryEmit == Running(State, "unary", "emit") /\ Set(unary_emit(State))
BinaryOp == Running(State, "binary", "start") /\ Set(binary_start(State))
BinaryEmit == Running(State, "binary", "emit") /\ Set(binary_emit(State))

Next ==
    \/ Compile
    \/ CompileFinish
    \/ Expression
    \/ ExpressionReturn
    \/ ParsePrecedence
    \/ ParsePrecedencePrefix
    \/ ParsePrecedenceLoop
    \/ ParsePrecedenceInfix
    \/ NumberLiteral
    \/ Grouping
    \/ GroupingClose
    \/ UnaryOp
    \/ UnaryEmit
    \/ BinaryOp
    \/ BinaryEmit

Spec == Init /\ [][Next]_vars

\* One step of the compiler from state s: what Next does, as a function.
\* A compile runs on its own thread of control and takes its next step as
\* long as it has one.
InputsFair == SeqsUpTo(Symbols, MaxLen - 1) \cup Chains

InitFair ==
    \E symbols \in InputsFair, flag \in BOOLEAN :
        LET t == from_source(tokens_of(symbols, "each"), flag)
        IN  /\ source = t.source
            /\ scanned = t.scanned
            /\ parser = t.parser
            /\ current_chunk = t.current_chunk
            /\ chunk = t.chunk
            /\ debug_mode = t.debug_mode
            /\ stack = t.stack
            /\ ret = t.ret
            /\ stdout = t.stdout
            /\ probe = None

SpecFair == InitFair /\ [][Next]_vars /\ WF_vars(Next)

Step(s) ==
    IF Len(s.stack) = 0
    THEN compile_start(s)
    ELSE LET at == <<Top(s).fn, Top(s).pc>>
         IN  CASE at = <<"compile", "finish">> -> compile_finish(s)
               [] at = <<"expression", "start">> -> expression_start(s)
               [] at = <<"expression", "return">> -> expression_return(s)
               [] at = <<"parse_precedence", "start">> -> parse_precedence_start(s)
               [] at = <<"parse_precedence", "prefix">> -> parse_precedence_prefix(s)
               [] at = <<"parse_precedence", "loop">> -> parse_precedence_loop(s)
               [] at = <<"parse_precedence", "infix">> -> parse_precedence_infix(s)
               [] at = <<"number", "start">> -> number(s)
               [] at = <<"grouping", "start">> -> grouping_start(s)
               [] at = <<"grouping", "close">> -> grouping_close(s)
               [] at = <<"unary", "start">> -> unary_start(s)
               [] at = <<"unary", "emit">> -> unary_emit(s)
               [] at = <<"binary", "start">> -> binary_start(s)
               [] at = <<"binary", "emit">> -> binary_emit(s)

\* compile(chunk) run from state s until it returns.
RECURSIVE Run(_)
Run(s) == IF Len(s.stack) = 0 /\ s.ret # "None" THEN s ELSE Run(Step(s))

\* The table functions on their own: get_rule on every token kind and
\* next_precedence on every level, outside any compile.
InitRules ==
    \E kind \in TokenType, variant \in Precedence :
        LET t == from_source(<<>>, FALSE)
        IN  /\ source = t.source
            /\ scanned = t.scanned
            /\ parser = t.parser
            /\ current_chunk = t.current_chunk
            /\ chunk = t.chunk
            /\ debug_mode = t.debug_mode
            /\ stack = t.stack
            /\ ret = t.ret
            /\ stdout = t.stdout
            /\ probe = Some([token_type |-> kind, variant |-> variant,
                             rule |-> None, next |-> None])

GetRule ==
    /\ is_some(probe)
    /\ ~is_some(unwrap(probe).rule)
    /\ probe' = Some([unwrap(probe) EXCEPT !.rule = Some(get_rule(unwrap(probe).token_type))])
    /\ UNCHANGED <<source, scanned, parser, current_chunk, chunk, debug_mode, stack, ret, stdout>>

NextPrecedence ==
    /\ is_some(probe)
    /\ ~is_some(unwrap(probe).next)
    /\ probe' = Some([unwrap(probe) EXCEPT !.next = Some(next_precedence(unwrap(probe).variant))])
    /\ UNCHANGED <<source, scanned, parser, current_chunk, chunk, debug_mode, stack, ret, stdout>>

NextRules == GetRule \/ NextPrecedence

SpecRules == InitRules /\ [][NextRules]_vars

\* The compiles and the table lookups side by side.
SpecAll == (Init \/ InitRules) /\ [][Next \/ NextRules]_vars

\* compile has returned to its caller (or the process has aborted).
Done == stack = <<>> /\ ret # "None"

\* ------------------------------------------------- what the claims speak of

Kinds == [i \in 1..Len(source) |-> source[i].token_type]

Additive == {"PLUS", "MINUS"}
Multiplicative == {"STAR", "SLASH"}

\* The opcode each binary operator stands for.
OpCodeOf(token_type) ==
    CASE token_type = "PLUS" -> "Add"
      [] token_type = "MINUS" -> "Sub"
      [] token_type = "STAR" -> "Mul"
      [] token_type = "SLASH" -> "Div"

\* The number each literal text denotes.
NumberValue(text) ==
    CASE text = <<"7">> -> 7
      [] text = <<"4", "2">> -> 42
      [] text = <<"1", "0", "5">> -> 105

\* An opcode sequence without its line tags, every Const with the pool entry
\* it refers to.
Emitted(c) ==
    [i \in 1..Len(c.code) |->
        IF c.code[i].op = "Const"
        THEN IF c.code[i].const_idx < Len(c.constants)
             THEN <<"Const", c.constants[c.code[i].const_idx + 1].Float>>
             ELSE <<"Const", "dangling">>
        ELSE <<c.code[i].op>>]

ConstOf(token) == <<"Const", NumberValue(unwrap(token.literal))>>
Op(token_type) == <<OpCodeOf(token_type)>>

\* The tokens from..to of the source as a source of their own.
Slice(from, to) ==
    [i \in 1..(to - from + 1) |-> [source[from + i - 1] EXCEPT !.start = i - 1]]

\* The outcome of compiling tokens alone, into a fresh chunk.
Alone(tokens) == Run(from_source(tokens, debug_mode))

\* C1: a op1 b op2 c with op1, op2 of the same precedence level compiles to
\* Const(a), Const(b), OP1, Const(c), OP2: the operators group to the left.
C1_LeftAssociative ==
    \A op1, op2 \in BinaryOps :
        ( /\ Done
          /\ Kinds = <<"NUMBER", op1, "NUMBER", op2, "NUMBER">>
          /\ ({op1, op2} \subseteq Additive \/ {op1, op2} \subseteq Multiplicative) )
        => /\ ret = "Ok"
           /\ Emitted(chunk) = <<ConstOf(source[1]), ConstOf(source[3]), Op(op1),
                                 ConstOf(source[5]), Op(op2)>>

C1_Witness ==
    /\ Done
    /\ ret = "Ok"
    /\ Kinds = <<"NUMBER", "MINUS", "NUMBER", "MINUS", "NUMBER">>
    /\ Emitted(chunk) = <<<<"Const", 7>>, <<"Const", 42>>, <<"Sub">>, <<"Const", 105>>, <<"Sub">>>>

\* C2: in a op1 b op2 c a multiplicative op2 after an additive op1 is emitted
\* first (a, b, c, OP2, OP1); an additive op2 after a multiplicative op1 is
\* emitted last (a, b, OP1, c, OP2).
C2_Precedence ==
    \A op1, op2 \in BinaryOps :
        (Done /\ Kinds = <<"NUMBER", op1, "NUMBER", op2, "NUMBER">>)
        => /\ (op1 \in Additive /\ op2 \in Multiplicative)
                => /\ ret = "Ok"
                   /\ Emitted(chunk) = <<ConstOf(source[1]), ConstOf(source[3]),
                                         ConstOf(source[5]), Op(op2), Op(op1)>>
           /\ (op1 \in Multiplicative /\ op2 \in Additive)
                => /\ ret = "Ok"
                   /\ Emitted(chunk) = <<ConstOf(source[1]), ConstOf(source[3]), Op(op1),
                                         ConstOf(source[5]), Op(op2)>>

C2_Witness ==
    /\ Done
    /\ ret = "Ok"
    /\ Kinds = <<"NUMBER", "PLUS", "NUMBER", "STAR", "NUMBER">>
    /\ Emitted(chunk) = <<<<"Const", 7>>, <<"Const", 42>>, <<"Const", 105>>, <<"Mul">>, <<"Add">>>>

\* C3: ( E ) compiles to what E alone compiles to, opcode for opcode and
\* constant for constant, and (a op1 b) op2 c compiles to
\* Const(a), Const(b), OP1, Const(c), OP2 whatever the levels of op1 and op2.
C3_Grouping ==
    /\ ( /\ Done
          /\ Len(source) >= 2
          /\ source[1].token_type = "LEFT_PAREN"
          /\ Last(source).token_type = "RIGHT_PAREN"
          /\ Alone(Slice(2, Len(source) - 1)).ret = "Ok" )
        => /\ ret = "Ok"
           /\ Emitted(chunk) = Emitted(Alone(Slice(2, Len(source) - 1)).chunk)
           /\ chunk.constants = Alone(Slice(2, Len(source) - 1)).chunk.constants
    /\ \A op1, op2 \in BinaryOps :
        ( /\ Done
          /\ Kinds = <<"LEFT_PAREN", "NUMBER", op1, "NUMBER", "RIGHT_PAREN", op2, "NUMBER">> )
        => /\ ret = "Ok"
           /\ Emitted(chunk) = <<ConstOf(source[2]), ConstOf(source[4]), Op(op1),
                                 ConstOf(source[7]), Op(op2)>>

C3_Witness ==
    /\ Done
    /\ ret = "Ok"
    /\ Kinds = <<"LEFT_PAREN", "NUMBER", "PLUS", "NUMBER", "RIGHT_PAREN", "STAR", "NUMBER">>
    /\ Emitted(chunk) = <<<<"Const", 7>>, <<"Const", 42>>, <<"Add">>, <<"Const", 105>>, <<"Mul">>>>

C3_WitnessWrapped ==
    /\ Done
    /\ ret = "Ok"
    /\ Kinds = <<"LEFT_PAREN", "NUMBER", "PLUS", "NUMBER", "STAR", "NUMBER", "RIGHT_PAREN">>
    /\ Alone(Slice(2, 6)).ret = "Ok"
    /\ Len(chunk.code) = 5

\* C4: -a compiles to Const(a), Negate; -(E) to the opcodes of E and then
\* Negate; -a op b to Const(a), Negate, Const(b), OP for every binary op.
C4_Unary ==
    /\ (Done /\ Kinds = <<"MINUS", "NUMBER">>)
        => ret = "Ok" /\ Emitted(chunk) = <<ConstOf(source[2]), <<"Negate">>>>
    /\ ( /\ Done
          /\ Len(source) >= 3
          /\ source[1].token_type = "MINUS"
          /\ source[2].token_type = "LEFT_PAREN"
          /\ Last(source).token_type = "RIGHT_PAREN"
          /\ Alone(Slice(3, Len(source) - 1)).ret = "Ok" )
        => /\ ret = "Ok"
           /\ Emitted(chunk) =
                Emitted(Alone(Slice(3, Len(source) - 1)).chunk) \o <<<<"Negate">>>>
    /\ \A op \in BinaryOps :
        (Done /\ Kinds = <<"MINUS", "NUMBER", op, "NUMBER">>)
        => /\ ret = "Ok"
           /\ Emitted(chunk) = <<ConstOf(source[2]), <<"Negate">>, ConstOf(source[4]), Op(op)>>

C4_Witness ==
    /\ Done
    /\ ret = "Ok"
    /\ Kinds = <<"MINUS", "NUMBER", "PLUS", "NUMBER">>
    /\ Emitted(chunk) = <<<<"Const", 7>>, <<"Negate">>, <<"Const", 42>>, <<"Add">>>>

C4_WitnessGroup ==
    /\ Done
    /\ ret = "Ok"
    /\ Kinds = <<"MINUS", "LEFT_PAREN", "NUMBER", "PLUS", "NUMBER", "RIGHT_PAREN">>
    /\ Emitted(chunk) = <<<<"Const", 7>>, <<"Const", 42>>, <<"Add">>, <<"Negate">>>>

\* The number of diagnostics written so far (one per call of error_at).
ErrorCount(out) == Cardinality({i \in 1..Len(out) : out[i].tag = "Error"})

IsPrefix(a, b) == Len(a) <= Len(b) /\ SubSeq(b, 1, Len(a)) = a

\* What a diagnostic says of the token it is attributed to.
Where(token) ==
    CASE token.token_type = "EOF" -> <<"end">>
      [] token.token_type = "ERROR" -> <<>>
      [] OTHER -> <<token.token_type>>
Diagnostic(token, message) == ErrorLine(token.line, Where(token), message)

HasPrefixRule(token_type) == token_type \in {"LEFT_PAREN", "MINUS", "NUMBER"}

C6_FirstErrorAborts ==
    /\ [](ErrorCount(stdout) <= 1)
    /\ [][ErrorCount(stdout) >= 1 => (chunk' = chunk /\ scanned' = scanned)]_vars
    /\ [][IsPrefix(chunk.code, chunk'.code) /\ IsPrefix(chunk.constants, chunk'.constants)]_vars
    /\ [](Done => (ret = "Err" <=> ErrorCount(stdout) = 1))
    /\ [](Done => ret \in {"Ok", "Err"})

C6_Witness ==
    /\ Done
    /\ ret = "Err"
    /\ Kinds = <<"LEFT_PAREN", "NUMBER", "PLUS", "NUMBER", "STAR", "NUMBER">>
    /\ Emitted(chunk) = <<<<"Const", 7>>, <<"Const", 42>>, <<"Const", 105>>, <<"Mul">>, <<"Add">>>>
    /\ ErrorCount(stdout) = 1
    /\ scanned = Len(source) + 1

\* C7: a source that is '(' and then a complete expression and then ends fails
\* with "Expected ')'" at the end-of-input token; so does every grouping whose
\* sub-expression is followed by the end of the input.
C7_UnterminatedGroup ==
    /\ []( ( /\ Done
              /\ Len(source) >= 2
              /\ source[1].token_type = "LEFT_PAREN"
              /\ Alone(Slice(2, Len(source))).ret = "Ok" )
            => /\ ret = "Err"
               /\ unwrap(parser.current).token_type = "EOF"
               /\ Last(stdout) = ErrorLine(Last(source).line, <<"end">>, "Expected ')'") )
    /\ [][(GroupingClose /\ ret = "Ok" /\ unwrap(parser.current).token_type = "EOF")
            => /\ ret' = "Err"
               /\ parser' = parser
               /\ stdout' = Append(stdout, Diagnostic(unwrap(parser.current), "Expected ')'"))]_vars

C7_Witness ==
    /\ Done
    /\ ret = "Err"
    /\ Kinds = <<"LEFT_PAREN", "NUMBER", "PLUS", "NUMBER", "PLUS", "NUMBER">>
    /\ unwrap(parser.current).token_type = "EOF"
    /\ Last(stdout).at = <<"end">>
    /\ Last(stdout).message = "Expected ')'"

\* C8: when the top-level expression has returned with success and the
\* current token is not EOF, compile fails with "Expected end of expression"
\* at that token and leaves the cursor where it was; compile succeeds only
\* when EOF follows the expression.
C8_TrailingInput ==
    /\ [][(CompileFinish /\ ret = "Ok" /\ unwrap(parser.current).token_type # "EOF")
            => /\ ret' = "Err"
               /\ stack' = <<>>
               /\ parser' = parser
               /\ scanned' = scanned
               /\ stdout' = Append(stdout, Diagnostic(unwrap(parser.current),
                                                      "Expected end of expression"))]_vars
    /\ []((Done /\ ret = "Ok")
            => /\ unwrap(parser.previous).token_type = "EOF"
               /\ scanned = Len(source) + 2)

C8_Witness ==
    /\ Done
    /\ ret = "Err"
    /\ Kinds = <<"NUMBER", "NUMBER">>
    /\ unwrap(parser.current) = source[2]
    /\ Last(stdout) = ErrorLine(source[2].line, <<"NUMBER">>, "Expected end of expression")

\* C9, as claimed: whenever parse_precedence consumes in prefix position a
\* token without a prefix handler, it fails with "Expected expression" at that
\* token and emits nothing.
C9_AsClaimed ==
    [][(ParsePrecedence /\ ~HasPrefixRule(unwrap(parser.current).token_type))
        => /\ ret' = "Err"
           /\ parser'.previous = parser.current
           /\ Last(stdout') = Diagnostic(unwrap(parser.current), "Expected expression")
           /\ chunk' = chunk]_vars

\* C9: whenever parse_precedence consumes in prefix position a token without
\* a prefix handler, it fails and emits nothing: with "Expected expression" at
\* that token when the token pulled behind it is no error token, and with the
\* scanner's message at the pulled token when that one is an error token.
C9_MissingPrefix ==
    [][(ParsePrecedence /\ ~HasPrefixRule(unwrap(parser.current).token_type))
        => /\ ret' = "Err"
           /\ parser'.previous = parser.current
           /\ chunk' = chunk
           /\ ErrorCount(stdout') = 1
           /\ Last(stdout') =
                IF unwrap(parser'.current).token_type = "ERROR"
                THEN Diagnostic(unwrap(parser'.current), unwrap(unwrap(parser'.current).message))
                ELSE Diagnostic(unwrap(parser.current), "Expected expression")]_vars

C9_Witness ==
    /\ Done
    /\ ret = "Err"
    /\ Kinds = <<"STAR", "NUMBER">>
    /\ unwrap(parser.previous) = source[1]
    /\ Last(stdout) = ErrorLine(source[1].line, <<"STAR">>, "Expected expression")
    /\ chunk.code = <<>>

\* The rule each token kind has.
OwnRule(token_type) ==
    CASE token_type = "LEFT_PAREN" -> ParseRule(Some("grouping"), None, NONE)
      [] token_type = "MINUS" -> ParseRule(Some("unary"), Some("binary"), Term)
      [] token_type = "PLUS" -> ParseRule(None, Some("binary"), Term)
      [] token_type = "SLASH" -> ParseRule(None, Some("binary"), Factor)
      [] token_type = "STAR" -> ParseRule(None, Some("binary"), Factor)
      [] token_type = "NUMBER" -> ParseRule(Some("number"), None, NONE)
      [] OTHER -> ParseRule(None, None, NONE)

\* C10: the table has 41 rows, one per token kind, and get_rule of a kind is
\* that kind's own rule: no handlers and precedence NONE for every kind but
\* '(', '-', '+', '/', '*' and number.
C10_RuleTable ==
    /\ Len(RULES) = 41
    /\ Cardinality(TokenType) = Len(RULES)
    /\ (is_some(probe) /\ is_some(unwrap(probe).rule))
        => unwrap(unwrap(probe).rule) = OwnRule(unwrap(probe).token_type)

C10_Witness ==
    /\ is_some(probe)
    /\ unwrap(probe).token_type = "EOF"
    /\ unwrap(probe).rule = Some(ParseRule(None, None, NONE))

\* C11, as claimed: next_precedence(p) is the level of rank rank(p) + 1 below
\* the highest level and stays at Primary for Primary.
C11_Saturates ==
    (is_some(probe) /\ is_some(unwrap(probe).next))
    => unwrap(unwrap(probe).next) =
        IF unwrap(probe).variant < Primary THEN unwrap(probe).variant + 1 ELSE Primary

\* The binary activations on the stack, each with the parse_precedence it
\* called for its right operand.
OperandCalls ==
    {i \in 1..(Len(stack) - 1) : stack[i].fn = "binary" /\ stack[i].pc = "emit"}

\* C14: next_precedence(p) is the level of rank rank(p) + 1 for NONE..Call and
\* Assignment for Primary; in a compile it is only ever asked for the
\* successor of Term ('+', '-') or of Factor ('*', '/'), never of Primary.
C14_WrapsToAssignment ==
    /\ (is_some(probe) /\ is_some(unwrap(probe).next))
        => unwrap(unwrap(probe).next) =
            IF unwrap(probe).variant < Primary THEN unwrap(probe).variant + 1 ELSE Assignment
    /\ \A i \in OperandCalls :
        /\ stack[i + 1].fn = "parse_precedence"
        /\ unwrap(stack[i].op_type) \in Additive => stack[i + 1].precedence = Factor
        /\ unwrap(stack[i].op_type) \in Multiplicative => stack[i + 1].precedence = Unary
        /\ unwrap(stack[i].op_type) \in Additive \cup Multiplicative

C14_Witness ==
    /\ is_some(probe)
    /\ unwrap(probe).variant = Primary
    /\ unwrap(probe).next = Some(Assignment)

C14_WitnessOperand ==
    /\ OperandCalls # {}
    /\ Last(stack).fn = "parse_precedence"
    /\ Last(stack).precedence = Unary

IsError(l) == l.tag = "Error"

\* The diagnostics among the lines of an output.
Diagnostics(out) == SelectSeq(out, IsError)

\* The same source compiled with the other setting of the debug flag.
OtherFlag == Run(from_source(source, ~debug_mode))

\* C12: a compile with the debug flag on and one with it off end with the
\* same result, the same chunk, the same tokens pulled, the same cursor and
\* the same diagnostic.
C12_DebugObservational ==
    Done
    => /\ OtherFlag.ret = ret
       /\ OtherFlag.chunk = chunk
       /\ OtherFlag.scanned = scanned
       /\ OtherFlag.parser = parser
       /\ Diagnostics(OtherFlag.stdout) = Diagnostics(stdout)

C12_Witness ==
    /\ Done
    /\ debug_mode
    /\ ret = "Err"
    /\ Kinds = <<"LEFT_PAREN", "NUMBER", "PLUS", "NUMBER", "STAR", "NUMBER">>
    /\ Len(chunk.code) = 5
    /\ Len(stdout) > Len(OtherFlag.stdout)
    /\ Len(Diagnostics(stdout)) = 1

\* C13, as claimed: with the debug flag off the only line a compile writes is
\* the diagnostic of a failing compile; a successful one writes nothing.
C13_QuietWithoutDebug ==
    ~debug_mode
    => /\ \A i \in 1..Len(stdout) : IsError(stdout[i])
       /\ Len(stdout) <= 1
       /\ (Done /\ ret = "Ok") => stdout = <<>>

\* The token the scanner hands out next.
Pulled == scan_token(State)

\* C15: every call of advance moves current to previous, pulls one token and
\* installs it as current, and leaves the chunk alone; a pulled token of the
\* error kind is installed all the same and advance fails with the scanner's
\* message attributed to that token; on any other token advance succeeds and
\* writes no diagnostic.
C15_Advance ==
    [][scanned' # scanned =>
        /\ scanned' = scanned + 1
        /\ parser'.previous = parser.current
        /\ parser'.current = Some(Pulled)
        /\ chunk' = chunk
        /\ advance(State).parser = parser'
        /\ advance(State).chunk = chunk
        /\ IF Pulled.token_type = "ERROR"
           THEN /\ ret' = "Err"
                /\ advance(State).ret = "Err"
                /\ Len(stdout') > 0
                /\ Last(stdout') = Diagnostic(Pulled, unwrap(Pulled.message))
                /\ ErrorCount(stdout') = ErrorCount(stdout) + 1
           ELSE /\ advance(State).ret = "Ok"
                /\ Diagnostics(advance(State).stdout) = Diagnostics(stdout)]_vars

C15_Witness ==
    /\ scanned = 3
    /\ Kinds = <<"NUMBER", "PLUS", "ERROR">>
    /\ unwrap(parser.previous).token_type = "PLUS"
    /\ unwrap(parser.current).token_type = "ERROR"
    /\ ret = "Err"
    /\ Len(chunk.code) = 1
    /\ ErrorCount(stdout) = 1

C15_WitnessSuccess ==
    /\ scanned = 2
    /\ Kinds = <<"NUMBER", "PLUS", "NUMBER">>
    /\ unwrap(parser.previous).token_type = "NUMBER"
    /\ unwrap(parser.current).token_type = "PLUS"
    /\ ret = "Ok"
    /\ ErrorCount(stdout) = 0

Operators == {"Add", "Sub", "Mul", "Div"}

\* The line tag of the i-th opcode and the line of the i-th token.
TagOf(i) == chunk.code[i].line
LineOf(i) == source[i].line

\* C16: every Add, Sub, Mul, Div and Negate carries the line of the token
\* consumed last before it is emitted, which is the last token of its (right)
\* operand and not the operator: in a op b it is the line of b, in
\* a op1 (b op2 c) the outer operator carries the line of the closing
\* parenthesis, in -a the line of a.
C16_LineOfLastOperandToken ==
    /\ [][(BinaryEmit \/ UnaryEmit) /\ ret = "Ok" /\ chunk'.code # chunk.code =>
            /\ chunk'.code = Append(chunk.code, Last(chunk'.code))
            /\ Last(chunk'.code).op \in Operators \cup {"Negate"}
            /\ Last(chunk'.code).line = unwrap(parser.previous).line
            /\ Last(chunk'.code).line = source[scanned - 1].line]_vars
    /\ [][(BinaryEmit \/ UnaryEmit) /\ ret = "Ok" => chunk'.code # chunk.code]_vars
    /\ [](Done /\ ret = "Ok" =>
            /\ (Len(source) = 3 /\ Kinds[1] = "NUMBER" /\ Kinds[2] \in BinaryOps)
                => (chunk.code[3].op = OpCodeOf(Kinds[2]) /\ TagOf(3) = LineOf(3))
            /\ (Len(source) = 5 /\ Kinds[1] = "NUMBER" /\ Kinds[2] \in BinaryOps /\ Kinds[4] \in BinaryOps)
                => /\ TagOf(5) = LineOf(5)
                   /\ chunk.code[3].op \in Operators => TagOf(3) = LineOf(3)
                   /\ chunk.code[4].op \in Operators => TagOf(4) = LineOf(5)
            /\ (Len(source) = 7 /\ Kinds[1] = "NUMBER" /\ Kinds[3] = "LEFT_PAREN")
                => /\ chunk.code[4].op = OpCodeOf(Kinds[5]) /\ TagOf(4) = LineOf(6)
                   /\ chunk.code[5].op = OpCodeOf(Kinds[2]) /\ TagOf(5) = LineOf(7)
            /\ (Len(source) = 2 /\ Kinds[1] = "MINUS" /\ Kinds[2] = "NUMBER")
                => (chunk.code[2].op = "Negate" /\ TagOf(2) = LineOf(2))
            /\ (Len(source) = 6 /\ Kinds[1] = "MINUS" /\ Kinds[2] = "LEFT_PAREN")
                => (chunk.code[4].op = "Negate" /\ TagOf(4) = LineOf(6)))

C16_Witness ==
    /\ Done
    /\ ret = "Ok"
    /\ Kinds = <<"NUMBER", "STAR", "LEFT_PAREN", "NUMBER", "MINUS", "NUMBER", "RIGHT_PAREN">>
    /\ LineOf(2) = 2
    /\ chunk.code[5].op = "Mul"
    /\ TagOf(5) = 7
    /\ TagOf(4) = 6

C16_WitnessNegate ==
    /\ Done
    /\ ret = "Ok"
    /\ Kinds = <<"MINUS", "LEFT_PAREN", "NUMBER", "PLUS", "NUMBER", "RIGHT_PAREN">>
    /\ chunk.code[4].op = "Negate"
    /\ TagOf(4) = 6

\* The places that read the cursor's previous token.
ReadsPrevious ==
    {<<"number", "start">>, <<"unary", "start">>, <<"unary", "emit">>,
     <<"binary", "start">>, <<"binary", "emit">>,
     <<"parse_precedence", "loop">>, <<"parse_precedence", "infix">>}

\* C17: compile never aborts: binary is entered only with previous one of
\* + - * /, so its match never reaches the panic; current is set from the
\* priming advance on and previous from the second advance on, and every
\* handler that reads one of them runs after that; every number token read by
\* the number handler carries a literal that parses.
C17_NoAbort ==
    /\ ret # "Panic"
    /\ is_some(parser.current) <=> scanned >= 1
    /\ is_some(parser.previous) <=> scanned >= 2
    /\ stack # <<>> => is_some(parser.current)
    /\ (stack # <<>> /\ <<Top(State).fn, Top(State).pc>> \in ReadsPrevious)
        => is_some(parser.previous)
    /\ Running(State, "binary", "start")
        => unwrap(parser.previous).token_type \in BinaryOps
    /\ \A i \in 1..Len(stack) :
        (stack[i].fn = "binary" /\ stack[i].pc = "emit")
            => (is_some(stack[i].op_type) /\ unwrap(stack[i].op_type) \in BinaryOps)
    /\ Running(State, "unary", "start")
        => unwrap(parser.previous).token_type = "MINUS"
    /\ Running(State, "number", "start")
        => /\ unwrap(parser.previous).token_type = "NUMBER"
           /\ is_some(unwrap(parser.previous).literal)
           /\ is_some(parse_f64(unwrap(unwrap(parser.previous).literal)))

C17_Witness ==
    /\ Running(State, "binary", "start")
    /\ Kinds = <<"NUMBER", "SLASH", "NUMBER">>
    /\ unwrap(parser.previous).token_type = "SLASH"
    /\ scanned = 3

C17_WitnessDone ==
    /\ Done
    /\ ret = "Ok"
    /\ Len(source) = 5
    /\ Len(chunk.code) = 5

\* Every activation of parse_precedence has Assignment, Factor or Unary as its
\* minimum precedence.
MinimumPrecedences ==
    \A i \in 1..Len(stack) :
        stack[i].fn = "parse_precedence" => stack[i].precedence \in {Assignment, Factor, Unary}

\* The infix loop advances over the current token.
LoopAdvances == ParsePrecedenceLoop /\ scanned' # scanned

\* The token the loop advances over is an operator of the Term or Factor level.
AdvancesOverOperator ==
    LET rule == get_rule(unwrap(parser.current).token_type)
    IN  /\ rule.precedence \in {Term, Factor}
        /\ is_some(rule.infix)
        /\ unwrap(parser.current).token_type \in BinaryOps

\* The step ends with the infix handler of the consumed token about to run.
InfixHandlerRuns ==
    /\ Len(stack') = Len(stack) + 1
    /\ Last(stack') =
        Frame(unwrap(get_rule(unwrap(parser.current).token_type).infix), "start", NONE, None)
    /\ stack'[Len(stack)].pc = "infix"
    /\ ret' # "Err"

\* C18, as claimed: parse_precedence is only invoked with Assignment, Factor or
\* Unary; whenever the infix loop consumes a token, the token has precedence
\* Term or Factor and an infix handler, and that handler is run.
C18_AsClaimed ==
    /\ []MinimumPrecedences
    /\ [][LoopAdvances => (AdvancesOverOperator /\ InfixHandlerRuns)]_vars

\* C18, amended: as above, but the handler is not run when the advance that
\* consumes the operator pulls a token of the error kind: parse_precedence
\* then fails at once, with the operator in previous. In no case does the
\* loop take another turn without running the handler.
C18_NoInfixBranchDead ==
    /\ []MinimumPrecedences
    /\ [][LoopAdvances =>
            /\ AdvancesOverOperator
            /\ IF Pulled.token_type = "ERROR"
               THEN /\ ret' = "Err"
                    /\ stack' = ButLast(stack)
                    /\ chunk' = chunk
                    /\ parser'.previous = parser.current
               ELSE InfixHandlerRuns]_vars

C18_Witness ==
    /\ Kinds = <<"NUMBER", "STAR", "ERROR">>
    /\ scanned = 3
    /\ ret = "Err"
    /\ unwrap(parser.previous).token_type = "STAR"
    /\ Len(stack) = 2
    /\ Last(stack).fn = "expression"
    /\ Emitted(chunk) = <<ConstOf(source[1])>>

C18_WitnessHandler ==
    /\ Kinds = <<"NUMBER", "STAR", "NUMBER">>
    /\ Running(State, "binary", "start")
    /\ stack[Len(stack) - 1] = Frame("parse_precedence", "infix", Assignment, None)

\* The infix loop finds its condition false and parse_precedence returns.
LoopExits == ParsePrecedenceLoop /\ scanned' = scanned

\* The precedence of the token the loop is looking at.
CurrentPrecedence == get_rule(unwrap(parser.current).token_type).precedence

\* The scanner is asked for at most one token after the EOF it returned first.
OneTokenPastEOF == scanned <= Len(source) + 2

\* C19, as claimed: compile returns; the infix loop exits only at a token of
\* precedence NONE; at most one token is requested after the first EOF.
C19_AsClaimed ==
    /\ <>Done
    /\ [](Done => ret \in {"Ok", "Err"})
    /\ [][LoopExits => CurrentPrecedence = NONE]_vars
    /\ []OneTokenPastEOF

\* C19, amended: compile returns with success or a parse error; the infix
\* loop exits at a token whose precedence is below the minimum of that
\* activation, which is a token of precedence NONE for the loop of an
\* expression (minimum Assignment) and may be an operator of a lower level for
\* the loop of an operand; at most one token is requested after the first EOF.
C19_Terminates ==
    /\ <>Done
    /\ [](Done => ret \in {"Ok", "Err"})
    /\ [][LoopExits =>
            /\ CurrentPrecedence < Top(State).precedence
            /\ Top(State).precedence = Assignment => CurrentPrecedence = NONE
            /\ ret' = "Ok"
            /\ stack' = ButLast(stack)]_vars
    /\ []OneTokenPastEOF

C19_Witness ==
    /\ Kinds = <<"NUMBER", "STAR", "NUMBER", "PLUS", "NUMBER">>
    /\ Running(State, "binary", "emit")
    /\ ret = "Ok"
    /\ scanned = 4
    /\ unwrap(parser.current).token_type = "PLUS"
    /\ unwrap(Top(State).op_type) = "STAR"

C19_WitnessPastEOF ==
    /\ Done
    /\ scanned = Len(source) + 2
    /\ Len(source) = 5
    /\ unwrap(parser.previous).token_type = "EOF"
    /\ unwrap(parser.current).token_type = "EOF"

\* The opcodes of one kind among the first k of the chunk.
Consts(k) == {i \in 1..k : chunk.code[i].op = "Const"}
Binaries(k) == {i \in 1..k : chunk.code[i].op \in Operators}
Negates(k) == {i \in 1..k : chunk.code[i].op = "Negate"}

\* The number of values on the stack of the machine after the first k opcodes.
Depth(k) == Cardinality(Consts(k)) - Cardinality(Binaries(k))

IsConst(e) == e[1] = "Const"
IsNumber(token) == token.token_type = "NUMBER"

\* The number tokens of the source, as the Const each one stands for.
NumbersOfSource ==
    LET numbers == SelectSeq(source, IsNumber)
    IN  [i \in 1..Len(numbers) |-> ConstOf(numbers[i])]

\* The operator tokens that stand between two operands, and the minus signs
\* that stand before one.
InfixOperators ==
    {i \in 2..Len(source) :
        /\ Kinds[i] \in BinaryOps
        /\ Kinds[i - 1] \in {"NUMBER", "RIGHT_PAREN"}}
PrefixOperators ==
    {i \in 1..Len(source) :
        /\ Kinds[i] = "MINUS"
        /\ i > 1 => Kinds[i - 1] \notin {"NUMBER", "RIGHT_PAREN"}}

\* C20: the code of a successful compile is a postfix program: with +1 for a
\* Const, 0 for a Negate and -1 for an Add, Sub, Mul or Div, the depth after
\* every non-empty prefix is at least 1 and after the whole code exactly 1;
\* the Consts are the number tokens of the source in source order, and there
\* are as many binary opcodes as infix operators.
C20_PostfixProgram ==
    (Done /\ ret = "Ok")
    => /\ Len(chunk.code) >= 1
       /\ \A k \in 1..Len(chunk.code) : Depth(k) >= 1
       /\ Depth(Len(chunk.code)) = 1
       /\ chunk.code[1].op = "Const"
       /\ \A k \in Binaries(Len(chunk.code)) : Depth(k - 1) >= 2
       /\ Cardinality(Consts(Len(chunk.code))) = Len(SelectSeq(source, IsNumber))
       /\ SelectSeq(Emitted(chunk), IsConst) = NumbersOfSource
       /\ Cardinality(Binaries(Len(chunk.code))) = Cardinality(InfixOperators)
       /\ Cardinality(Negates(Len(chunk.code))) = Cardinality(PrefixOperators)
       /\ \A i \in 1..Len(source) : Kinds[i] \in BinaryOps
            => i \in InfixOperators \cup PrefixOperators

C20_Witness ==
    /\ Done
    /\ ret = "Ok"
    /\ Kinds = <<"LEFT_PAREN", "NUMBER", "SLASH", "NUMBER", "RIGHT_PAREN", "MINUS", "NUMBER">>
    /\ Cardinality(Consts(5)) = 3
    /\ Cardinality(Binaries(5)) = 2
    /\ Depth(2) = 2
    /\ Depth(3) = 1

C20_WitnessNegate ==
    /\ Done
    /\ ret = "Ok"
    /\ Kinds = <<"MINUS", "NUMBER", "MINUS", "NUMBER">>
    /\ Negates(4) = {2}
    /\ Binaries(4) = {4}
    /\ PrefixOperators = {1}
    /\ InfixOperators = {3}

====
